---- MODULE Spec2Model ----
(***************************************************************************)
(* Model of virttest/libvirt_storage.py: StoragePool and PoolVolume, thin  *)
(* wrappers that run virsh subcommands against a libvirt daemon and parse  *)
(* their text output, and check_qemu_image_lock_support.                   *)
(*                                                                         *)
(* Text is a sequence of pieces.  A piece is an indivisible run of         *)
(* non-blank characters ("Name", "p1", "/img/v1", ":"), a blank " " or a   *)
(* line break "\n".                                                        *)
(***************************************************************************)
EXTENDS Integers, Sequences, FiniteSets

VARIABLES self, lv, last, src, stdout

vars == <<self, lv, last, src, stdout>>

----------------------------------------------------------------------------
(* Python string operations, as the module uses them.                      *)

NL == "\n"

IsSpace(c) == c \in {" ", NL}

\* pieces that hold a '/' character
HasSlash(c) == c \in {"/", "/x", "/img/v1", "/img/v2", "/img/v3"}

RECURSIVE FirstNonSpace(_, _)
FirstNonSpace(s, i) ==
    IF i > Len(s) \/ ~IsSpace(s[i]) THEN i ELSE FirstNonSpace(s, i + 1)

RECURSIVE LastNonSpace(_, _)
LastNonSpace(s, i) ==
    IF i < 1 \/ ~IsSpace(s[i]) THEN i ELSE LastNonSpace(s, i - 1)

\* str.lstrip()
LStrip(s) == SubSeq(s, FirstNonSpace(s, 1), Len(s))

\* str.rstrip()
RStrip(s) == SubSeq(s, 1, LastNonSpace(s, Len(s)))

\* str.strip()
Strip(s) == SubSeq(s, FirstNonSpace(s, 1), LastNonSpace(s, Len(s)))

\* the lines of s from position i on; the open line began at position from
RECURSIVE SplitLinesAcc(_, _, _, _)
SplitLinesAcc(s, i, from, acc) ==
    IF i > Len(s) THEN (IF from > Len(s) THEN acc ELSE Append(acc, SubSeq(s, from, Len(s))))
    ELSE IF s[i] = NL
         THEN SplitLinesAcc(s, i + 1, i + 1, Append(acc, SubSeq(s, from, i - 1)))
    ELSE SplitLinesAcc(s, i + 1, from, acc)

\* str.splitlines(): a final line break opens no further line
SplitLines(s) == SplitLinesAcc(s, 1, 1, <<>>)

\* the fields of s from position i on; the open field, if any, began at from
RECURSIVE SplitAcc(_, _, _, _)
SplitAcc(s, i, from, acc) ==
    IF i > Len(s) THEN (IF from = 0 THEN acc ELSE Append(acc, SubSeq(s, from, Len(s))))
    ELSE IF IsSpace(s[i])
         THEN SplitAcc(s, i + 1, 0, IF from = 0 THEN acc ELSE Append(acc, SubSeq(s, from, i - 1)))
    ELSE SplitAcc(s, i + 1, IF from = 0 THEN i ELSE from, acc)

\* str.split() without a separator: fields between runs of blanks
Split(s) == SplitAcc(s, 1, 0, <<>>)

\* sub occurs in s at position i
OccursAt(s, sub, i) ==
    /\ i + Len(sub) - 1 <= Len(s)
    /\ SubSeq(s, i, i + Len(sub) - 1) = sub

\* the "in" operator on strings
Contains(s, sub) == \E i \in 1..(Len(s) + 1) : OccursAt(s, sub, i)

RECURSIVE SplitSepAcc(_, _, _, _)
SplitSepAcc(s, sep, cur, acc) ==
    IF s = <<>> THEN Append(acc, cur)
    ELSE IF OccursAt(s, sep, 1)
         THEN SplitSepAcc(SubSeq(s, Len(sep) + 1, Len(s)), sep, <<>>, Append(acc, cur))
    ELSE SplitSepAcc(Tail(s), sep, Append(cur, Head(s)), acc)

\* str.split(sep) for a non-empty sep; split("") raises ValueError and is
\* handled where it is called
SplitSep(s, sep) == SplitSepAcc(s, sep, <<>>, <<>>)

\* re.match("[N|n]ame", column): the column begins with Name, name or |ame
MatchName(column) == column # <<>> /\ Head(column) \in {"Name", "name", "|ame"}

\* re.findall("\s+\S*/.*", line): the leftmost match runs from a blank whose
\* following field holds a '/' to the end of the line
PathStarts(line) ==
    {i \in 1..Len(line) :
        /\ IsSpace(line[i])
        /\ \E k \in (i + 1)..Len(line) :
              /\ HasSlash(line[k])
              /\ \A j \in i..(k - 1) :
                    IsSpace(line[j]) => \A m \in i..j : IsSpace(line[m])}

FindPath(line) ==
    IF PathStarts(line) = {} THEN <<>>
    ELSE <<SubSeq(line, CHOOSE i \in PathStarts(line) :
                            \A j \in PathStarts(line) : i <= j, Len(line))>>

----------------------------------------------------------------------------
(* Python dicts are functions; a call's outcome is a record holding the    *)
(* exception that left the call ("" when it returned) and the value.       *)

\* Let(e, LAMBDA x : ...) is the assignment x = e followed by the
\* statements after it
Let(e, F(_)) == CHOOSE r \in {F(x) : x \in {e}} : TRUE

EmptyDict == <<>>

DictSet(d, k, v) == [x \in (DOMAIN d) \cup {k} |-> IF x = k THEN v ELSE d[x]]

Unbound == "<unbound>"

\* the inner "while True" loop of list_pools over enumerate(head.split())
RECURSIVE HeadLoop(_, _, _, _, _)
HeadLoop(headcols, details, index, pool_name, details_dict) ==
    IF index > Len(headcols)
    THEN [exc |-> "", pool_name |-> pool_name, details_dict |-> details_dict]
    ELSE IF index > Len(details)
    THEN [exc |-> "IndexError", pool_name |-> pool_name, details_dict |-> details_dict]
    ELSE IF MatchName(headcols[index])
    THEN HeadLoop(headcols, details, index + 1, details[index], details_dict)
    ELSE HeadLoop(headcols, details, index + 1, pool_name,
                  DictSet(details_dict, headcols[index], details[index]))

\* the "for line in lines" loop of list_pools; pool_name is a local of the
\* method and keeps its binding from one row to the next
RECURSIVE PoolRows(_, _, _, _)
PoolRows(head, lines, pool_name, pools) ==
    IF lines = <<>> THEN [exc |-> "", dict |-> pools]
    ELSE LET r == HeadLoop(Split(head), Split(Head(lines)), 1, pool_name, EmptyDict)
         IN  IF r.exc # "" THEN [exc |-> r.exc, dict |-> EmptyDict]
             ELSE IF r.pool_name = Unbound
             THEN [exc |-> "UnboundLocalError", dict |-> EmptyDict]
             ELSE PoolRows(head, Tail(lines), r.pool_name,
                           DictSet(pools, r.pool_name, r.details_dict))

\* parse_pool_list taking lines[1:], the separator line as a data row
parse_pool_list_keep_separator(stdout_text) ==
    LET lines == SplitLines(Strip(stdout_text))
    IN  IF Len(lines) > 2
        THEN PoolRows(lines[1], SubSeq(lines, 2, Len(lines)), Unbound, EmptyDict)
        ELSE [exc |-> "", dict |-> EmptyDict]

\* list_pools from the point where pool-list has returned its output
parse_pool_list(stdout_text) ==
    LET lines == SplitLines(Strip(stdout_text))
    IN  IF Len(lines) > 2
        THEN PoolRows(lines[1], SubSeq(lines, 3, Len(lines)), Unbound, EmptyDict)
        ELSE [exc |-> "", dict |-> EmptyDict]

\* the "for line in lines" loop of list_volumes
RECURSIVE VolRows(_, _)
VolRows(lines, volumes) ==
    IF lines = <<>> THEN [exc |-> "", dict |-> volumes]
    ELSE LET line  == Head(lines)
             found == FindPath(line)
             path  == IF found = <<>> THEN <<>> ELSE found[1]
         IN  IF path = <<>>
             THEN [exc |-> "ValueError", dict |-> EmptyDict]
             ELSE VolRows(Tail(lines),
                          DictSet(volumes, LStrip(SplitSep(line, path)[1]), Strip(path)))

\* list_volumes from the point where vol-list has returned its output
parse_vol_list(stdout_text) ==
    LET lines == SplitLines(Strip(stdout_text))
    IN  IF Len(lines) > 2
        THEN VolRows(SubSeq(lines, 3, Len(lines)), EmptyDict)
        ELSE [exc |-> "", dict |-> EmptyDict]

\* the loop of pool_info over the lines of pool-info
RECURSIVE InfoRows(_, _)
InfoRows(lines, info) ==
    IF lines = <<>> THEN info
    ELSE LET params == SplitSep(Head(lines), <<":">>)
         IN  InfoRows(Tail(lines),
                      IF Len(params) = 2
                      THEN DictSet(info, Strip(params[1]), Strip(params[2]))
                      ELSE info)

parse_pool_info(stdout_text) == InfoRows(SplitLines(stdout_text), EmptyDict)

\* the loop of volume_info over the lines of vol-info
RECURSIVE VolInfoRows(_, _)
VolInfoRows(lines, info) ==
    IF lines = <<>> THEN info
    ELSE LET line  == Head(lines)
             attr  == SplitSep(line, <<":">>)[1]
             parts == SplitSep(line, attr \o <<":">>)
         IN  VolInfoRows(Tail(lines), DictSet(info, attr, Strip(parts[Len(parts)])))

parse_vol_info(stdout_text) == VolInfoRows(SplitLines(Strip(stdout_text)), EmptyDict)

----------------------------------------------------------------------------
(* The libvirt daemon behind virsh: the state of each pool (no pool is set *)
(* to autostart) and the volumes of the pool a PoolVolume names.           *)

NPools == 2
NVols == 2

AllPoolNames == <<"p1", "p2", "p3">>
AllVolNames == <<"v1", "v2", "v3">>
VolPath == [v \in {"v1", "v2", "v3"} |->
              IF v = "v1" THEN "/img/v1" ELSE IF v = "v2" THEN "/img/v2" ELSE "/img/v3"]

PoolNames == {AllPoolNames[i] : i \in 1..NPools}
VolNames == {AllVolNames[i] : i \in 1..NVols}

PoolStates == {"absent", "inactive", "active"}

Defined(l, name) == l.pools[name] # "absent"

RECURSIVE Join(_)
Join(ss) == IF ss = <<>> THEN <<>> ELSE Head(ss) \o Join(Tail(ss))

\* the names of a set in listing order
RECURSIVE Listing(_, _)
Listing(order, S) ==
    IF order = <<>> THEN <<>>
    ELSE (IF Head(order) \in S THEN <<Head(order)>> ELSE <<>>) \o Listing(Tail(order), S)

\* output of "virsh pool-list --all"
PoolListText(l) ==
    LET names == Listing(AllPoolNames, {n \in PoolNames : Defined(l, n)})
        row(n) == <<" ", n, " ", " ", l.pools[n], " ", "no", NL>>
    IN  <<" ", "Name", " ", " ", "State", " ", "Autostart", NL, "-----", NL>>
        \o Join([i \in 1..Len(names) |-> row(names[i])]) \o <<NL>>

\* output of "virsh pool-info <name>"
PoolInfoText(l, name) ==
    <<"Name", ":", " ", " ", name, NL,
      "UUID", ":", " ", "uuid", NL,
      "State", ":", " ", IF l.pools[name] = "active" THEN "running" ELSE "inactive", NL,
      "Persistent", ":", " ", "yes", NL,
      "Autostart", ":", " ", "no", NL, NL>>

\* output of "virsh vol-list <pool>"
VolListText(l) ==
    LET names == Listing(AllVolNames, l.vols)
        row(n) == <<" ", n, " ", " ", VolPath[n], NL>>
    IN  <<" ", "Name", " ", " ", "Path", NL, "-----", NL>>
        \o Join([i \in 1..Len(names) |-> row(names[i])]) \o <<NL>>

\* output of "virsh vol-info <name> <pool>"
VolInfoText(name) ==
    <<"Name", ":", " ", " ", name, NL, "Type", ":", " ", "file", NL, NL>>

\* what libvirt requires for a command to succeed
CmdPre(l, cmd, arg, arg2) ==
    CASE cmd = "pool-list"      -> TRUE
      [] cmd = "pool-info"      -> Defined(l, arg)
      [] cmd = "pool-destroy"   -> l.pools[arg] = "active"
      [] cmd = "pool-undefine"  -> l.pools[arg] = "inactive"
      [] cmd = "pool-start"     -> l.pools[arg] = "inactive"
      [] cmd = "pool-define-as" -> ~Defined(l, arg)
      [] cmd = "vol-list"       -> TRUE
      [] cmd = "vol-info"       -> arg \in l.vols
      [] cmd = "vol-create-as"  -> arg \notin l.vols
      [] cmd = "vol-delete"     -> arg \in l.vols
      [] cmd = "vol-clone"      -> arg \in l.vols /\ arg2 \notin l.vols

\* what a successful command does to libvirt
CmdEffect(l, cmd, arg, arg2) ==
    CASE cmd = "pool-destroy"   -> [l EXCEPT !.pools[arg] = "inactive"]
      [] cmd = "pool-undefine"  -> [l EXCEPT !.pools[arg] = "absent"]
      [] cmd = "pool-start"     -> [l EXCEPT !.pools[arg] = "active"]
      [] cmd = "pool-define-as" -> [l EXCEPT !.pools[arg] = "inactive"]
      [] cmd = "vol-create-as"  -> [l EXCEPT !.vols = @ \cup {arg}]
      [] cmd = "vol-delete"     -> [l EXCEPT !.vols = @ \ {arg}]
      [] cmd = "vol-clone"      -> [l EXCEPT !.vols = @ \cup {arg2}]
      [] OTHER                  -> l

\* what a successful command prints
CmdOutput(l, cmd, arg) ==
    CASE cmd = "pool-list" -> PoolListText(l)
      [] cmd = "pool-info" -> PoolInfoText(l, arg)
      [] cmd = "vol-list"  -> VolListText(l)
      [] cmd = "vol-info"  -> VolInfoText(arg)
      [] OTHER             -> <<>>

\* The daemon's answers to the n commands one call may issue: answer k says
\* whether the daemon is able to serve the k-th command.
Answers(n) == [1..n -> BOOLEAN]

PyTrue == <<"<True>">>
PyFalse == <<"<False>">>
PyNone == <<"<None>">>
PyDict == <<"<dict>">>

\* a call in progress: libvirt, the commands issued so far, the daemon's
\* answers, the last command's status and output, and the outcome
Begin(l, o) ==
    [lv |-> l, cmds |-> <<>>, o |-> o, ok |-> TRUE, out |-> <<>>,
     exc |-> "", val |-> PyNone, dict |-> EmptyDict]

\* self.virsh_instance.<cmd>(...): run one virsh command
Virsh(c, cmd, arg, arg2) ==
    Let(c.o[Len(c.cmds) + 1] /\ CmdPre(c.lv, cmd, arg, arg2), LAMBDA ok :
        [c EXCEPT !.lv = IF ok THEN CmdEffect(c.lv, cmd, arg, arg2) ELSE c.lv,
                  !.cmds = Append(c.cmds, [cmd |-> cmd, arg |-> arg, ok |-> ok, pre |-> c.lv]),
                  !.ok = ok,
                  !.out = IF ok THEN CmdOutput(c.lv, cmd, arg) ELSE <<>>])

\* the objects a caller constructs
StoragePool == [class |-> "StoragePool", pool_name |-> ""]
PoolVolume == [class |-> "PoolVolume", pool_name |-> "pool"]

Return(c, v) == [c EXCEPT !.exc = "", !.val = v, !.dict = EmptyDict]
ReturnDict(c, d) == [c EXCEPT !.exc = "", !.val = PyDict, !.dict = d]
Raise(c, e) == [c EXCEPT !.exc = e, !.val = PyNone, !.dict = EmptyDict]
Bool(b) == IF b THEN PyTrue ELSE PyFalse

----------------------------------------------------------------------------
(* class StoragePool                                                       *)

list_pools(c) ==
    Let(Virsh(c, "pool-list", "--all", ""), LAMBDA result :
        IF ~result.ok THEN Raise(result, "CmdError")
        ELSE Let(parse_pool_list(result.out), LAMBDA parsed :
                 IF parsed.exc # "" THEN Raise(result, parsed.exc)
                 ELSE ReturnDict(result, parsed.dict)))

pool_exists(c, name) ==
    Let(list_pools(c), LAMBDA pools :
        IF pools.exc = "CmdError" THEN Return(pools, PyFalse)
        ELSE IF pools.exc # "" THEN pools
        ELSE Return(pools, Bool(<<name>> \in DOMAIN pools.dict)))

\* PoolColumn without "except process.CmdError"
PoolColumn_uncaught(c, name, column) ==
    Let(list_pools(c), LAMBDA pools :
        IF pools.exc # "" THEN pools
        ELSE IF <<name>> \notin DOMAIN pools.dict THEN Return(pools, PyNone)
        ELSE IF <<column>> \notin DOMAIN pools.dict[<<name>>] THEN Return(pools, PyNone)
        ELSE Return(pools, pools.dict[<<name>>][<<column>>]))

\* list_pools()[name][column], None on CmdError or KeyError
PoolColumn(c, name, column) ==
    Let(list_pools(c), LAMBDA pools :
        IF pools.exc = "CmdError" THEN Return(pools, PyNone)
        ELSE IF pools.exc # "" THEN pools
        ELSE IF <<name>> \notin DOMAIN pools.dict THEN Return(pools, PyNone)
        ELSE IF <<column>> \notin DOMAIN pools.dict[<<name>>] THEN Return(pools, PyNone)
        ELSE Return(pools, pools.dict[<<name>>][<<column>>]))

pool_state(c, name) == PoolColumn(c, name, "State")

pool_autostart(c, name) == PoolColumn(c, name, "Autostart")

pool_info(c, name) ==
    Let(Virsh(c, "pool-info", name, ""), LAMBDA result :
        IF ~result.ok THEN ReturnDict(result, EmptyDict)
        ELSE ReturnDict(result, parse_pool_info(result.out)))

get_pool_uuid(c, name) ==
    Let(pool_info(c, name), LAMBDA info :
        IF <<"UUID">> \notin DOMAIN info.dict THEN Raise(info, "KeyError")
        ELSE Return(info, info.dict[<<"UUID">>]))

is_pool_active(c, name) ==
    Let(pool_state(c, name), LAMBDA state :
        IF state.exc # "" THEN state
        ELSE Return(state, Bool(state.val = <<"active">>)))

is_pool_persistent(c, name) ==
    Let(pool_info(c, name), LAMBDA info :
        IF <<"Persistent">> \notin DOMAIN info.dict THEN Raise(info, "KeyError")
        ELSE Return(info, Bool(info.dict[<<"Persistent">>] = <<"yes">>)))

\* virsh.pool_destroy(name): reports success as a boolean, raises nothing
pool_destroy(c, name) ==
    Let(Virsh(c, "pool-destroy", name, ""), LAMBDA result :
        Return(result, Bool(result.ok)))

\* delete_pool from "Undefine pool anyway" on
UndefinePool(c, name) ==
    Let(Virsh(c, "pool-undefine", name, ""), LAMBDA result :
        IF result.ok THEN Return(result, PyTrue)
        ELSE Let(pool_exists(result, name), LAMBDA exists :
                 IF exists.exc # "" THEN exists
                 ELSE IF exists.val = PyTrue THEN Return(exists, PyFalse)
                 ELSE Return(exists, PyTrue)))

\* delete_pool going on to pool-undefine after a failed pool-destroy
delete_pool_undefine_anyway(c, name) ==
    Let(is_pool_active(c, name), LAMBDA active :
        IF active.exc # "" THEN active
        ELSE IF active.val = PyTrue
        THEN Let(pool_destroy(active, name), LAMBDA destroyed :
                 UndefinePool(destroyed, name))
        ELSE UndefinePool(active, name))

delete_pool(c, name) ==
    Let(is_pool_active(c, name), LAMBDA active :
        IF active.exc # "" THEN active
        ELSE IF active.val = PyTrue
        THEN Let(pool_destroy(active, name), LAMBDA destroyed :
                 IF destroyed.val # PyTrue THEN Return(destroyed, PyFalse)
                 ELSE UndefinePool(destroyed, name))
        ELSE UndefinePool(active, name))

\* start_pool without the is_pool_active test
start_pool_unconditional(c, name) ==
    Let(Virsh(c, "pool-start", name, ""), LAMBDA result :
        Return(result, Bool(result.ok)))

start_pool(c, name) ==
    Let(is_pool_active(c, name), LAMBDA active :
        IF active.exc # "" THEN active
        ELSE IF active.val = PyTrue THEN Return(active, PyTrue)
        ELSE Let(Virsh(active, "pool-start", name, ""), LAMBDA result :
                 Return(result, Bool(result.ok))))

destroy_pool(c, name) ==
    Let(is_pool_active(c, name), LAMBDA active :
        IF active.exc # "" THEN active
        ELSE IF active.val # PyTrue THEN Return(active, PyTrue)
        ELSE pool_destroy(active, name))

PoolTypes == {"dir", "fs", "logical", "disk", "iscsi", "netfs", "rbd"}

\* define_dir_pool, define_fs_pool, define_lvm_pool, define_disk_pool,
\* define_iscsi_pool, define_netfs_pool, define_rbd_pool
define_pool(c, type, name) ==
    Let(Virsh(c, "pool-define-as", name, type), LAMBDA result :
        Return(result, Bool(result.ok)))

----------------------------------------------------------------------------
(* class PoolVolume                                                        *)

list_volumes(c) ==
    Let(Virsh(c, "vol-list", PoolVolume.pool_name, ""), LAMBDA result :
        IF ~result.ok THEN ReturnDict(result, EmptyDict)
        ELSE Let(parse_vol_list(result.out), LAMBDA parsed :
                 IF parsed.exc # "" THEN Raise(result, parsed.exc)
                 ELSE ReturnDict(result, parsed.dict)))

volume_exists(c, name) ==
    Let(list_volumes(c), LAMBDA volumes :
        IF volumes.exc # "" THEN volumes
        ELSE Return(volumes, Bool(<<name>> \in DOMAIN volumes.dict)))

volume_info(c, name) ==
    Let(Virsh(c, "vol-info", name, PoolVolume.pool_name), LAMBDA result :
        IF ~result.ok THEN ReturnDict(result, EmptyDict)
        ELSE ReturnDict(result, parse_vol_info(result.out)))

\* create_volume without the query after vol-create-as
create_volume_unverified(c, name) ==
    Let(volume_exists(c, name), LAMBDA before :
        IF before.exc # "" THEN before
        ELSE IF before.val = PyTrue THEN Return(before, PyFalse)
        ELSE Let(Virsh(before, "vol-create-as", name, ""), LAMBDA result :
                 Return(result, Bool(result.ok))))

\* create_volume after vol-create-as has succeeded
VerifyCreated(c, name) ==
    Let(volume_exists(c, name), LAMBDA after :
        IF after.exc # "" THEN after
        ELSE IF after.val = PyTrue THEN Return(after, PyTrue)
        ELSE Let(list_volumes(after), LAMBDA logged :
                 IF logged.exc # "" THEN logged ELSE Return(logged, PyFalse)))

create_volume(c, name) ==
    Let(volume_exists(c, name), LAMBDA before :
        IF before.exc # "" THEN before
        ELSE IF before.val = PyTrue THEN Return(before, PyFalse)
        ELSE Let(Virsh(before, "vol-create-as", name, ""), LAMBDA result :
                 IF ~result.ok THEN Return(result, PyFalse)
                 ELSE VerifyCreated(result, name)))

delete_volume(c, name) ==
    Let(volume_exists(c, name), LAMBDA before :
        IF before.exc # "" THEN before
        ELSE IF before.val # PyTrue THEN Return(before, PyTrue)
        ELSE Let(Virsh(before, "vol-delete", name, ""), LAMBDA result :
                 IF ~result.ok THEN Return(result, PyFalse)
                 ELSE Let(volume_exists(result, name), LAMBDA after :
                          IF after.exc # "" THEN after
                          ELSE Return(after, Bool(after.val # PyTrue)))))

\* clone_volume once old_name is known to exist and new_name not to
CloneChecked(c, old_name, new_name) ==
    Let(Virsh(c, "vol-clone", old_name, new_name), LAMBDA result :
        IF ~result.ok THEN Return(result, PyFalse)
        ELSE Let(volume_exists(result, new_name), LAMBDA after :
                 IF after.exc # "" THEN after
                 ELSE Return(after, Bool(after.val = PyTrue))))

clone_volume(c, old_name, new_name) ==
    Let(volume_exists(c, old_name), LAMBDA old :
        IF old.exc # "" THEN old
        ELSE IF old.val # PyTrue THEN Return(old, PyFalse)
        ELSE Let(volume_exists(old, new_name), LAMBDA new :
                 IF new.exc # "" THEN new
                 ELSE IF new.val = PyTrue THEN Return(new, PyFalse)
                 ELSE CloneChecked(new, old_name, new_name)))

----------------------------------------------------------------------------
(* check_qemu_image_lock_support, which runs its commands without virsh.   *)

\* process.run(cmd): the command exits with status zero iff the next answer
\* is TRUE, and prints out
Run(c, cmd, out) ==
    Let(c.o[Len(c.cmds) + 1], LAMBDA ok :
        [c EXCEPT !.cmds = Append(c.cmds, [cmd |-> cmd, arg |-> "", ok |-> ok, pre |-> c.lv]),
                  !.ok = ok, !.out = out])

\* binary_path is assigned only when "which" succeeds; the except clause
\* reads it to build the CmdError it means to raise.  "<binary> -h" runs
\* with ignore_status=True, so its status is not looked at.
check_qemu_image_lock_support(c, which_out, help_out) ==
    Let(Run(c, "which qemu-img", which_out), LAMBDA which :
        Let(IF which.ok THEN Strip(which.out) ELSE <<Unbound>>, LAMBDA binary_path :
            IF ~which.ok
            THEN (IF binary_path = <<Unbound>> THEN Raise(which, "UnboundLocalError")
                  ELSE Raise(which, "CmdError"))
            ELSE Let(Run(which, "qemu-img -h", help_out), LAMBDA cmd_result :
                     Return(cmd_result, Bool(Contains(cmd_result.out, <<"-", "U">>))))))

----------------------------------------------------------------------------
(* The state machine.  `self' is the object the caller has constructed, a  *)
(* StoragePool or a PoolVolume (the classes share nothing); its methods    *)
(* are called one at a time, each call running to its end (all operations  *)
(* are synchronous).  `last' records the latest call and `stdout' what the *)
(* last command of that call printed.                                      *)

NoTable == [kind |-> "none", sep |-> TRUE, header |-> <<>>, rows |-> <<>>]

NoCall == [op |-> "none", arg |-> "", arg2 |-> "", exc |-> "", val |-> PyNone,
           dict |-> EmptyDict, cmds |-> <<>>, pre |-> <<>>]

Init ==
    /\ self \in {StoragePool, PoolVolume}
    /\ lv = [pools |-> [n \in PoolNames |-> "absent"],
             vols |-> {}]
    /\ last = NoCall
    /\ src = NoTable
    /\ stdout = <<>>

\* the call op(arg, arg2) ran to the outcome r
Call(class, op, arg, arg2, outcome) ==
    /\ class \in {self.class, ""}
    /\ \E r \in {outcome} :
          /\ lv' = r.lv
          /\ last' = [op |-> op, arg |-> arg, arg2 |-> arg2, exc |-> r.exc, val |-> r.val,
                      dict |-> r.dict, cmds |-> r.cmds, pre |-> lv]
          /\ stdout' = r.out
          /\ UNCHANGED <<self, src>>

ListPools ==
    \E o \in Answers(1) : Call("StoragePool", "list_pools", "", "", list_pools(Begin(lv, o)))

PoolExists ==
    \E o \in Answers(1), name \in PoolNames :
        Call("StoragePool", "pool_exists", name, "", pool_exists(Begin(lv, o), name))

PoolState ==
    \E o \in Answers(1), name \in PoolNames :
        Call("StoragePool", "pool_state", name, "", pool_state(Begin(lv, o), name))

PoolAutostart ==
    \E o \in Answers(1), name \in PoolNames :
        Call("StoragePool", "pool_autostart", name, "", pool_autostart(Begin(lv, o), name))

PoolInfo ==
    \E o \in Answers(1), name \in PoolNames :
        Call("StoragePool", "pool_info", name, "", pool_info(Begin(lv, o), name))

GetPoolUuid ==
    \E o \in Answers(1), name \in PoolNames :
        Call("StoragePool", "get_pool_uuid", name, "", get_pool_uuid(Begin(lv, o), name))

IsPoolActive ==
    \E o \in Answers(1), name \in PoolNames :
        Call("StoragePool", "is_pool_active", name, "", is_pool_active(Begin(lv, o), name))

IsPoolPersistent ==
    \E o \in Answers(1), name \in PoolNames :
        Call("StoragePool", "is_pool_persistent", name, "", is_pool_persistent(Begin(lv, o), name))

DeletePool ==
    \E o \in Answers(4), name \in PoolNames :
        Call("StoragePool", "delete_pool", name, "", delete_pool(Begin(lv, o), name))

StartPool ==
    \E o \in Answers(2), name \in PoolNames :
        Call("StoragePool", "start_pool", name, "", start_pool(Begin(lv, o), name))

DestroyPool ==
    \E o \in Answers(2), name \in PoolNames :
        Call("StoragePool", "destroy_pool", name, "", destroy_pool(Begin(lv, o), name))

DefinePool ==
    \E o \in Answers(1), name \in PoolNames, type \in PoolTypes :
        Call("StoragePool", "define_pool", name, type, define_pool(Begin(lv, o), type, name))

ListVolumes ==
    \E o \in Answers(1) : Call("PoolVolume", "list_volumes", "", "", list_volumes(Begin(lv, o)))

VolumeExists ==
    \E o \in Answers(1), name \in VolNames :
        Call("PoolVolume", "volume_exists", name, "", volume_exists(Begin(lv, o), name))

VolumeInfo ==
    \E o \in Answers(1), name \in VolNames :
        Call("PoolVolume", "volume_info", name, "", volume_info(Begin(lv, o), name))

CreateVolume ==
    \E o \in Answers(4), name \in VolNames :
        Call("PoolVolume", "create_volume", name, "", create_volume(Begin(lv, o), name))

DeleteVolume ==
    \E o \in Answers(3), name \in VolNames :
        Call("PoolVolume", "delete_volume", name, "", delete_volume(Begin(lv, o), name))

CloneVolume ==
    \E o \in Answers(4), old_name \in VolNames, new_name \in VolNames :
        Call("PoolVolume", "clone_volume", old_name, new_name,
             clone_volume(Begin(lv, o), old_name, new_name))

\* outputs of "qemu-img -h": with the -U option, without it, with a lone U
HelpTexts == {<<"usage", " ", "[", "-", "U", "]", NL>>, <<"usage", " ", "[", "-", "q", "]", NL>>,
              <<"U", "-", NL>>, <<>>}

CheckQemuImageLockSupport ==
    \E o \in Answers(2), help_out \in HelpTexts :
        Call("", "check_qemu_image_lock_support", "", "",
             check_qemu_image_lock_support(Begin(lv, o),
                 IF o[1] THEN <<"/usr/bin/qemu-img", NL>> ELSE <<>>, help_out))

Next ==
    \/ ListPools \/ PoolExists \/ PoolState \/ PoolAutostart \/ PoolInfo
    \/ GetPoolUuid \/ IsPoolActive \/ IsPoolPersistent \/ DeletePool
    \/ StartPool \/ DestroyPool \/ DefinePool
    \/ ListVolumes \/ VolumeExists \/ VolumeInfo \/ CreateVolume
    \/ DeleteVolume \/ CloneVolume
    \/ CheckQemuImageLockSupport

Spec == Init /\ [][Next]_vars

----------------------------------------------------------------------------
(* The parsers on arbitrary tables.  `src' is the table virsh prints and   *)
(* `stdout' its text; list_pools and list_volumes run on that text.        *)

MaxRows == 2
MaxFields == 3

SeqsUpTo(S, lo, hi) == UNION {[1..n -> S] : n \in lo..hi}

PoolHeaders == {<<"Name", "State">>, <<"State", "name", "Autostart">>}
PoolFields == {"p1", "p2"}

VolRowNames == {<<"v1">>, <<"v2">>, <<"my", " ", "vol">>}
VolRowPaths == {<<"/img/v1">>, <<"/x", " ", "y">>, <<>>}

PoolTables ==
    [kind : {"pool"}, sep : BOOLEAN, header : PoolHeaders,
     rows : SeqsUpTo(SeqsUpTo(PoolFields, 1, MaxFields), 0, MaxRows)]

VolTables ==
    [kind : {"vol"}, sep : BOOLEAN, header : {<<"Name", "Path">>},
     rows : SeqsUpTo([name : VolRowNames, path : VolRowPaths], 0, MaxRows)]

\* a line of blank-separated fields, as virsh prints table rows
FieldLine(fields) == Join([i \in 1..Len(fields) |-> <<" ", fields[i], " ">>])

RowLine(t, row) ==
    IF t.kind = "pool" THEN FieldLine(row)
    ELSE <<" ">> \o row.name \o <<" ", " ">> \o row.path

TableText(t) ==
    FieldLine(t.header) \o <<NL>>
    \o (IF t.sep THEN <<"-----", NL>> ELSE <<>>)
    \o Join([i \in 1..Len(t.rows) |-> RowLine(t, t.rows[i]) \o <<NL>>])
    \o <<NL>>

ParseInit ==
    /\ self \in {StoragePool, PoolVolume}
    /\ lv = [pools |-> [n \in PoolNames |-> "absent"], vols |-> {}]
    /\ last = NoCall
    /\ src \in (IF self = StoragePool THEN PoolTables ELSE VolTables)
    /\ stdout = TableText(src)

Parsed(op, r) ==
    /\ last' = [NoCall EXCEPT !.op = op, !.exc = r.exc, !.dict = r.dict]
    /\ UNCHANGED <<self, lv, src, stdout>>

\* list_pools() when pool-list printed stdout
ParsePoolList ==
    /\ self = StoragePool
    /\ Parsed("list_pools", parse_pool_list(stdout))

\* list_volumes() when vol-list printed stdout
ParseVolList ==
    /\ self = PoolVolume
    /\ Parsed("list_volumes", parse_vol_list(stdout))

ParseNext == ParsePoolList \/ ParseVolList

ParseSpec == ParseInit /\ [][ParseNext]_vars

----------------------------------------------------------------------------
(* Properties.  They read the record of the latest call: the commands it   *)
(* issued in order, each with its status and with libvirt's state at the   *)
(* time, and the value returned or exception raised.                       *)

Cmds == last.cmds

\* the positions at which the call issued the command cmd
Issued(cmd) == {i \in 1..Len(Cmds) : Cmds[i].cmd = cmd}

\* query i is a vol-list that succeeded and listed the volume name
VolListed(i, name) ==
    /\ i \in Issued("vol-list")
    /\ Cmds[i].ok
    /\ name \in Cmds[i].pre.vols

\* libvirt holds the pool name as active when the call begins and the
\* call's pool-list query succeeds: is_pool_active(name) is due to be True
SeenActive(name) ==
    /\ last.pre.pools[name] = "active"
    /\ Cmds # <<>> /\ Cmds[1].ok

\* C2: create_volume returns True only if the name was absent from the
\* vol-list query before the command, vol-create-as succeeded and the name
\* is present in the vol-list query after it, in this order; if the name is
\* listed before the command it returns False and issues no vol-create-as.
C2_CreateVolumeVerified ==
    last.op = "create_volume" =>
        /\ last.exc = ""
        /\ last.val = PyTrue =>
              /\ Len(Cmds) = 3
              /\ 1 \in Issued("vol-list") /\ ~VolListed(1, last.arg)
              /\ 2 \in Issued("vol-create-as") /\ Cmds[2].ok /\ Cmds[2].arg = last.arg
              /\ VolListed(3, last.arg)
        /\ VolListed(1, last.arg) =>
              /\ last.val = PyFalse
              /\ Issued("vol-create-as") = {}

C2_Witness ==
    /\ last.op = "create_volume"
    /\ last.val = PyTrue
    /\ last.arg \notin last.pre.vols
    /\ last.arg \in lv.vols

\* C3: delete_pool destroys, then undefines.  When the pool is active (as
\* is_pool_active finds it: pool-list succeeds and shows the pool active)
\* pool-destroy is issued before pool-undefine, and if pool-destroy fails
\* delete_pool returns False and issues no pool-undefine; when the pool is
\* not active pool-destroy is not issued and pool-undefine is issued
\* directly.
C3_DestroyThenUndefine ==
    last.op = "delete_pool" =>
        /\ Len(Cmds) >= 2
        /\ 1 \in Issued("pool-list")
        /\ SeenActive(last.arg) =>
              /\ 2 \in Issued("pool-destroy") /\ Cmds[2].arg = last.arg
              /\ \A i \in Issued("pool-undefine") : i > 2
              /\ Cmds[2].ok => 3 \in Issued("pool-undefine") /\ Cmds[3].arg = last.arg
              /\ ~Cmds[2].ok => last.val = PyFalse /\ Issued("pool-undefine") = {}
        /\ ~SeenActive(last.arg) =>
              /\ Issued("pool-destroy") = {}
              /\ 2 \in Issued("pool-undefine") /\ Cmds[2].arg = last.arg

C3_Witness ==
    /\ last.op = "delete_pool"
    /\ SeenActive(last.arg)
    /\ 2 \in Issued("pool-destroy") /\ ~Cmds[2].ok
    /\ last.val = PyFalse
    /\ lv.pools[last.arg] = "active"

\* C4: start_pool on a pool whose state is already active issues no
\* pool-start and returns True, destroy_pool on a pool that is not active
\* issues no pool-destroy and returns True; in the opposite state each
\* issues its command exactly once and returns True iff the command
\* succeeded.  The state is the one pool_state reads from the pool-list
\* query that opens the call.
C4_StartDestroyIdempotent ==
    /\ last.op = "start_pool" =>
          /\ last.exc = ""
          /\ 1 \in Issued("pool-list")
          /\ SeenActive(last.arg) =>
                Issued("pool-start") = {} /\ last.val = PyTrue
          /\ ~SeenActive(last.arg) =>
                /\ Cardinality(Issued("pool-start")) = 1
                /\ \A i \in Issued("pool-start") :
                      Cmds[i].arg = last.arg /\ (last.val = PyTrue <=> Cmds[i].ok)
    /\ last.op = "destroy_pool" =>
          /\ last.exc = ""
          /\ 1 \in Issued("pool-list")
          /\ ~SeenActive(last.arg) =>
                Issued("pool-destroy") = {} /\ last.val = PyTrue
          /\ SeenActive(last.arg) =>
                /\ Cardinality(Issued("pool-destroy")) = 1
                /\ \A i \in Issued("pool-destroy") :
                      Cmds[i].arg = last.arg /\ (last.val = PyTrue <=> Cmds[i].ok)

C4_Witness ==
    /\ last.op = "start_pool"
    /\ SeenActive(last.arg)
    /\ Issued("pool-start") = {}
    /\ last.val = PyTrue

\* "-U" occurs in text
HasDashU(text) == \E i \in 1..(Len(text) - 1) : text[i] = "-" /\ text[i + 1] = "U"

\* C7: check_qemu_image_lock_support raises CmdError when "which qemu-img"
\* fails, and otherwise returns True iff "-U" occurs in the output of
\* "<binary> -h".
C7_QemuImgLockSupport ==
    last.op = "check_qemu_image_lock_support" =>
        /\ ~Cmds[1].ok => last.exc = "CmdError"
        /\ Cmds[1].ok =>
              /\ last.exc = ""
              /\ last.val = PyTrue <=> HasDashU(stdout)

\* C8: whenever delete_volume returns True the volume is not in the pool
\* when the call returns, whatever vol-list and vol-delete answer; when the
\* name is absent before the call it returns True without a vol-delete.
C8_DeletedMeansAbsent ==
    last.op = "delete_volume" =>
        /\ last.val = PyTrue => last.arg \notin lv.vols
        /\ last.arg \notin last.pre.vols =>
              last.val = PyTrue /\ Issued("vol-delete") = {}

\* the methods the error contract names
C1Methods ==
    {"list_pools", "pool_exists", "pool_state", "pool_autostart", "pool_info",
     "get_pool_uuid", "is_pool_active", "is_pool_persistent", "delete_pool",
     "start_pool", "define_pool", "list_volumes", "volume_info", "create_volume",
     "delete_volume", "clone_volume"}

\* the methods that let an exception out when their command fails
C1Raising == {"list_pools", "get_pool_uuid", "is_pool_persistent"}

\* the command a method exists to run
OwnCommand ==
    [op \in C1Methods \ C1Raising |->
        CASE op \in {"pool_exists", "pool_state", "pool_autostart", "is_pool_active"} -> "pool-list"
          [] op = "pool_info"     -> "pool-info"
          [] op = "delete_pool"   -> "pool-destroy"
          [] op = "start_pool"    -> "pool-start"
          [] op = "define_pool"   -> "pool-define-as"
          [] op = "list_volumes"  -> "vol-list"
          [] op = "volume_info"   -> "vol-info"
          [] op = "create_volume" -> "vol-create-as"
          [] op = "delete_volume" -> "vol-delete"
          [] op = "clone_volume"  -> "vol-clone"]

SomeCommandFailed == \E i \in 1..Len(Cmds) : ~Cmds[i].ok

\* the call returned False, None or an empty dict
ReturnedSentinel ==
    /\ last.exc = ""
    /\ \/ last.val \in {PyFalse, PyNone}
       \/ last.val = PyDict /\ last.dict = EmptyDict

\* C1 as stated: in every listed method a failed virsh command is caught
\* and becomes a returned False, None or empty dict; no exception reaches
\* the caller.
C1_FailureBecomesSentinel ==
    (last.op \in C1Methods /\ SomeCommandFailed) => ReturnedSentinel

\* C1 as amended: every listed method but list_pools, get_pool_uuid and
\* is_pool_persistent catches the CmdError of its virsh commands, so that no
\* exception reaches the caller, and returns False, None or an empty dict
\* when the command it exists to run fails; list_pools lets the CmdError
\* out, get_pool_uuid and is_pool_persistent raise KeyError when pool-info
\* fails.
C1_ErrorContract ==
    /\ last.op \in C1Methods \ C1Raising =>
          /\ last.exc = ""
          /\ (\E i \in Issued(OwnCommand[last.op]) : ~Cmds[i].ok) => ReturnedSentinel
    /\ (last.op = "list_pools" /\ SomeCommandFailed) => last.exc = "CmdError"
    /\ (last.op \in {"get_pool_uuid", "is_pool_persistent"} /\ SomeCommandFailed) =>
          last.exc = "KeyError"

C1_Witness ==
    /\ last.op = "start_pool"
    /\ Len(Cmds) = 2
    /\ ~Cmds[1].ok /\ ~Cmds[2].ok
    /\ last.val = PyFalse
    /\ last.exc = ""

----------------------------------------------------------------------------
(* Properties of the parsers, over the tables of ParseSpec.                *)

Rows == src.rows

\* the lines of the text: header, separator if any, data rows
NumLines == 1 + (IF src.sep THEN 1 ELSE 0) + Len(Rows)

NameColumns == {i \in 1..Len(src.header) : src.header[i] \in {"Name", "name"}}
OtherColumns == (1..Len(src.header)) \ NameColumns

\* every data row has a field under every header column
RowsFilled == \A r \in 1..Len(Rows) : Len(Rows[r]) >= Len(src.header)

\* the call returned a mapping with one key per distinct value of the Name
\* column, each mapped to the other columns of a row of that name
PoolMapping ==
    /\ last.exc = ""
    /\ \A r \in 1..Len(Rows) : \A n \in NameColumns :
          n <= Len(Rows[r]) => <<Rows[r][n]>> \in DOMAIN last.dict
    /\ \A k \in DOMAIN last.dict : \E r \in 1..Len(Rows) :
          /\ \A n \in NameColumns : n <= Len(Rows[r]) /\ k = <<Rows[r][n]>>
          /\ DOMAIN last.dict[k] = {<<src.header[i]>> : i \in OtherColumns}
          /\ \A i \in OtherColumns :
                i <= Len(Rows[r]) /\ last.dict[k][<<src.header[i]>>] = <<Rows[r][i]>>

\* C5 as stated: for any output with a header line, a separator line and at
\* least one data row list_pools returns the mapping; for two lines or
\* fewer it returns the empty mapping.
C5_AnyTableMapped ==
    last.op = "list_pools" =>
        /\ (src.sep /\ Len(Rows) >= 1) => PoolMapping
        /\ NumLines <= 2 => (last.exc = "" /\ last.dict = EmptyDict)

\* C5 as amended: the mapping is returned when every data row has at least
\* as many blank-separated fields as the header has columns; a data row
\* with fewer fields raises IndexError; two lines or fewer give the empty
\* mapping.
C5_FilledTableMapped ==
    last.op = "list_pools" =>
        /\ (src.sep /\ Len(Rows) >= 1 /\ RowsFilled) => PoolMapping
        /\ (src.sep /\ Len(Rows) >= 1 /\ ~RowsFilled) => last.exc = "IndexError"
        /\ NumLines <= 2 => (last.exc = "" /\ last.dict = EmptyDict)

C5_Witness ==
    /\ last.op = "list_pools"
    /\ src.sep /\ Len(Rows) = 2 /\ RowsFilled
    /\ Len(Rows[1]) > Len(src.header)
    /\ Cardinality(DOMAIN last.dict) = 2

\* C6: list_volumes returns, for every data row, an entry keyed by the
\* row's volume name whose value is the row's path without surrounding
\* blanks; a row without a path is recorded with the empty string.
C6_EveryRowListed ==
    (last.op = "list_volumes" /\ src.sep /\ Len(Rows) >= 1) =>
        /\ last.exc = ""
        /\ \A r \in 1..Len(Rows) : Rows[r].name \in DOMAIN last.dict
        /\ \A k \in DOMAIN last.dict : \E r \in 1..Len(Rows) :
              Rows[r].name = k /\ last.dict[k] = Rows[r].path

====
